---- MODULE Spec2Model ----
(***************************************************************************)
(* Fast Lab IO: the HTTP/WebSocket facade over a camera client (pysilico)  *)
(* and a motor client (plico_motor).                                       *)
(*                                                                         *)
(* One request (or one streaming connection) is a small process:           *)
(*   idle -> connecting -> validate -> body -> calling/loop -> done        *)
(* The steps between two awaits of the source run atomically on the event  *)
(* loop; each action below is one such step.  The framework (FastAPI)      *)
(* solves the Depends(...) parameters of an endpoint first, then validates *)
(* the endpoint's own Body(...) parameters, then calls the endpoint, and   *)
(* finally closes the yield-dependency: normally when the endpoint         *)
(* returned, by throwing the endpoint's exception into the generator at    *)
(* its yield when the endpoint raised.                                     *)
(***************************************************************************)
EXTENDS Integers, Sequences, FiniteSets, TLC

VARIABLES
    active,      \* the request slots in use
    pc,          \* where each request is
    kind,        \* the endpoint of each request
    body,        \* the request body, as parsed from JSON (not yet validated)
    handle,      \* the instrument handle the provider holds (0 is None)
    hasClose,    \* whether that handle exposes a close method
    thread,      \* the worker thread of the request's current to_thread call
    client,      \* the peer of a streaming connection: "na", "open", "closed"
    goneAt,      \* the acquisitions begun when the peer closed (-1: it has not)
    log,         \* what the request did to its collaborators, in order
    resp,        \* the response sent to the client
    nextHandle   \* the next fresh handle identity

vars == <<active, pc, kind, body, handle, hasClose, thread, client, goneAt, log, resp, nextHandle>>

(***************************************************************************)
(* Bounds of the model.                                                    *)
(***************************************************************************)
NumReq == 2      \* request slots
MaxVal == 2      \* request values range over -MaxVal..MaxVal
MaxIter == 3     \* frame acquisitions of one streaming connection
Workers == 1     \* threads of the executor that runs the to_thread calls

Req == 1..NumReq
Values == (-MaxVal)..MaxVal
Causes == {"errA", "errB"}   \* texts of the exceptions the collaborators raise

(***************************************************************************)
(* Endpoints.                                                              *)
(***************************************************************************)
CameraKinds == {"frame", "exposure", "gain", "stream"}
MotorKinds == {"move", "position", "speed"}
Kinds == CameraKinds \cup MotorKinds

IsCamera(k) == k \in CameraKinds
HasBody(k) == k \in {"exposure", "gain", "move", "speed"}

\* A JSON body field: a number, or something that is not a number.
Bodies == [num : {TRUE}, val : Values] \cup {[num |-> FALSE, val |-> 0]}
NoBody == [num |-> TRUE, val |-> 0]

\* Field(..., gt=0)
ExposureSettings(b) == b.num /\ b.val > 0
\* Variant: Field(..., gt=0) on the gain.
GainSettingsMut(b) == b.num /\ b.val > 0

\* Field(..., ge=0)
GainSettings(b) == b.num /\ b.val >= 0
\* Variant: a range restriction on the position.
MotorMoveRequestMut(b) == b.num /\ b.val >= 0

\* position: float = Field(...)
MotorMoveRequest(b) == b.num
\* Field(..., ge=0)
MotorSpeedRequest(b) == b.num /\ b.val >= 0

BodyValid(k, b) ==
    CASE k = "exposure" -> ExposureSettings(b)
      [] k = "gain" -> GainSettings(b)
      [] k = "move" -> MotorMoveRequest(b)
      [] k = "speed" -> MotorSpeedRequest(b)
      [] OTHER -> TRUE

(***************************************************************************)
(* Status codes.  The source reads its codes from the framework's status   *)
(* module, which names the HTTP codes HTTP_<code>_<name> and the WebSocket *)
(* close codes WS_<1000..1015>_<name>.                                     *)
(***************************************************************************)
StatusModule ==
    [HTTP_200_OK |-> 200,
     HTTP_422_UNPROCESSABLE_ENTITY |-> 422,
     HTTP_500_INTERNAL_SERVER_ERROR |-> 500,
     WS_1000_NORMAL_CLOSURE |-> 1000,
     WS_1011_INTERNAL_ERROR |-> 1011]

HasStatus(name) == name \in DOMAIN StatusModule

\* The close code the streaming handler asks the status module for.
StreamCloseCodeName == "WS_500_INTERNAL_ERROR"

(***************************************************************************)
(* Exceptions and responses.  A text is a sequence of tokens.              *)
(***************************************************************************)
HTTPException(code, detail) == [http |-> TRUE, status |-> code, detail |-> detail]
PlainException(text) == [http |-> FALSE, status |-> 0, detail |-> <<text>>]

\* str(e): a plain exception prints its text, an HTTPException "<status>: <detail>".
StrExc(e) == IF e.http THEN <<ToString(e.status), ": ">> \o e.detail ELSE e.detail

NoResp == [status |-> 0, detail |-> <<>>]
Response(code, detail) == [status |-> code, detail |-> detail]
ErrorResponse(e) == Response(e.status, e.detail)
ValidationError == Response(422, <<"validation error">>)

ConnPrefix(k) == IF IsCamera(k) THEN "Could not connect to camera: " ELSE "Could not connect to motor: "

\* Variant: the timeout reported with the message of the None case.
TimeoutDetailMut == <<"Failed to obtain motor client from server. Check server logs.">>
TimeoutDetail == <<"Timeout connecting to motor server on localhost:7200. Server might be unresponsive.">>
NoneDetail == <<"Failed to obtain motor client from server. Check server logs.">>

\* except Exception as e: raise HTTPException(500, f"Could not connect to ...: {e}")
ConnectFailure(k, e) == HTTPException(500, <<ConnPrefix(k)>> \o StrExc(e))

HandlerPrefix(k) ==
    CASE k = "frame" -> "Error acquiring or encoding frame: "
      [] k = "exposure" -> "Could not set exposure time: "
      [] k = "gain" -> "Could not set gain: "
      [] k = "move" -> "Could not move motor: "
      [] k = "position" -> "Could not get motor position: "
      [] k = "speed" -> "Could not set motor speed: "
      [] OTHER -> "Server error: "

\* except Exception as e: raise HTTPException(500, f"Could not ...: {e}")
HandlerFailure(k, e) == HTTPException(500, <<HandlerPrefix(k)>> \o StrExc(e))

\* cv2.imencode(".jpg", frame) and buffer.tobytes(): the JPEG bytes of frame v.
Encode(v) == <<"jpeg", ToString(v)>>

\* Variant: GET /frame answers 200 with an empty body.
SuccessResponseMut(k, v) ==
    IF k = "frame" THEN Response(200, <<"image/jpeg">>)
    ELSE Response(200, <<HandlerPrefix(k), ToString(v)>>)

SuccessResponse(k, v) ==
    CASE k = "exposure" -> Response(200, <<"Exposure time set to ", ToString(v), " us">>)
      [] k = "gain" -> Response(200, <<"Gain set to ", ToString(v)>>)
      [] k = "move" -> Response(200, <<"Motor moving to position: ", ToString(v)>>)
      [] k = "speed" -> Response(200, <<"Motor speed set to: ", ToString(v)>>)
      [] k = "position" -> Response(200, <<"position", ToString(v)>>)
      [] k = "frame" -> Response(200, <<"image/jpeg">> \o Encode(v))
      [] OTHER -> NoResp

\* Variant: GET /position calls the motor's move.
OpNameMut(k) ==
    CASE k = "frame" -> "getFrameForDisplay"
      [] k = "exposure" -> "setExposureTime"
      [] k = "gain" -> "set_gain"
      [] k = "move" -> "move"
      [] k = "position" -> "move"
      [] k = "speed" -> "set_speed"
      [] OTHER -> "getFutureFrames"

OpName(k) ==
    CASE k = "frame" -> "getFrameForDisplay"
      [] k = "exposure" -> "setExposureTime"
      [] k = "gain" -> "set_gain"
      [] k = "move" -> "move"
      [] k = "position" -> "get_position"
      [] k = "speed" -> "set_speed"
      [] OTHER -> "getFutureFrames"

(***************************************************************************)
(* The log of a request.                                                   *)
(***************************************************************************)
Ev(name, arg) == [e |-> name, a |-> arg, c |-> ""]
EvC(name, cause) == [e |-> name, a |-> 0, c |-> cause]
Count(l, name) == Cardinality({i \in DOMAIN l : l[i].e = name})
Has(l, name) == \E i \in DOMAIN l : l[i].e = name
First(l, name) == CHOOSE i \in DOMAIN l : l[i].e = name /\ \A j \in 1..(i - 1) : l[j].e # name

OpEvents == {"getFrameForDisplay", "setExposureTime", "set_gain", "move",
             "get_position", "set_speed", "getFutureFrames"}
Ops(l) == Cardinality({i \in DOMAIN l : l[i].e \in OpEvents})

TypeOK ==
    /\ active \subseteq Req
    /\ pc \in [Req -> {"idle", "connecting", "validate", "body", "calling", "loop", "acquiring", "done"}]
    /\ kind \in [Req -> Kinds \cup {"none"}]
    /\ body \in [Req -> Bodies]
    /\ handle \in [Req -> 0..NumReq]
    /\ hasClose \in [Req -> BOOLEAN]
    /\ thread \in [Req -> {"none", "queued", "running", "finished", "abandoned", "cancelled"}]
    /\ client \in [Req -> {"na", "open", "closed"}]
    /\ goneAt \in [Req -> (-1)..MaxIter]
    /\ nextHandle \in 1..(NumReq + 1)

(***************************************************************************)
(* asyncio.to_thread: the call is submitted to the event loop's default    *)
(* executor, a pool of Workers threads.  It starts at once when a thread   *)
(* is free and waits in the executor's queue otherwise.                    *)
(***************************************************************************)
Busy == {q \in Req : thread[q] \in {"running", "abandoned"}}

Dispatch(r) == IF Cardinality(Busy \ {r}) < Workers THEN "running" ELSE "queued"

Init ==
    /\ active = {1}
    /\ pc = [r \in Req |-> "idle"]
    /\ kind = [r \in Req |-> "none"]
    /\ body = [r \in Req |-> NoBody]
    /\ handle = [r \in Req |-> 0]
    /\ hasClose = [r \in Req |-> FALSE]
    /\ thread = [r \in Req |-> "none"]
    /\ client = [r \in Req |-> "na"]
    /\ goneAt = [r \in Req |-> -1]
    /\ log = [r \in Req |-> <<>>]
    /\ resp = [r \in Req |-> NoResp]
    /\ nextHandle = 1

(***************************************************************************)
(* The Connection Providers: get_pysilico_camera and get_plico_motor.      *)
(***************************************************************************)
ConnOutcomes == {"ok", "none", "raise"}

\* Variant: the camera provider yields even when the connection call raised.
ProviderYieldsMut(k, o) == IF IsCamera(k) THEN TRUE ELSE o = "ok"

\* Whether the provider reaches its yield when the connection call returned
\* with outcome o.  The motor provider checks the handle for None before it
\* yields; the camera provider yields whatever pysilico.camera returned.
ProviderYields(k, o) == IF IsCamera(k) THEN o \in {"ok", "none"} ELSE o = "ok"

\* The exception that leaves the provider when it does not yield.  Each is
\* raised inside the provider's try block and so passes through its
\* "except Exception as e" clause.
ConnectError(k, o, c) ==
    CASE o = "raise" -> ConnectFailure(k, PlainException(c))
      [] o = "none" -> ConnectFailure(k, HTTPException(StatusModule.HTTP_500_INTERNAL_SERVER_ERROR, NoneDetail))
      [] OTHER -> ConnectFailure(k, HTTPException(StatusModule.HTTP_500_INTERNAL_SERVER_ERROR, TimeoutDetail))

\* The guard of the provider's finally block.
CleanupGuard(k, h, hc) == IF IsCamera(k) THEN h # 0 ELSE h # 0 /\ hc

\* What the guarded branch of the finally block does: the camera provider
\* logs "Closing camera connection.", the motor provider passes; in both the
\* call of the handle's close method is commented out.
Cleanup(k, h, hc) == IF CleanupGuard(k, h, hc) THEN <<Ev("cleanup", h)>> ELSE <<>>

\* The request ends: the events are logged and the response goes out.
Finish(r, events, response) ==
    /\ pc' = [pc EXCEPT ![r] = "done"]
    /\ log' = [log EXCEPT ![r] = @ \o events]
    /\ resp' = [resp EXCEPT ![r] = response]

\* The endpoint returned: the framework resumes the provider after its yield,
\* which runs the finally block, and sends the endpoint's response.
HandlerReturns(r, events, response) ==
    Finish(r, events \o <<Ev("body_return", 0)>> \o Cleanup(kind[r], handle[r], hasClose[r]), response)

\* The endpoint raised e: the framework throws e into the provider at its
\* yield, inside the provider's try block, whose "except Exception" clause
\* replaces it; the finally block runs.
HandlerRaises(r, events, e) ==
    Finish(r, events \o <<Ev("body_raise", 0)>> \o Cleanup(kind[r], handle[r], hasClose[r]),
           ErrorResponse(ConnectFailure(kind[r], e)))

(***************************************************************************)
(* A request arrives.  The framework starts solving the endpoint's         *)
(* dependency: the provider dispatches the connection call to a worker     *)
(* thread and awaits it.                                                   *)
(***************************************************************************)
Request(r, k, b) ==
    /\ r \in active
    /\ pc[r] = "idle"
    /\ b = NoBody \/ HasBody(k)
    /\ kind' = [kind EXCEPT ![r] = k]
    /\ body' = [body EXCEPT ![r] = b]
    /\ client' = [client EXCEPT ![r] = IF k = "stream" THEN "open" ELSE "na"]
    /\ log' = [log EXCEPT ![r] = <<Ev("connect", 0)>>]
    /\ thread' = [thread EXCEPT ![r] = Dispatch(r)]
    /\ pc' = [pc EXCEPT ![r] = "connecting"]
    /\ UNCHANGED <<active, handle, hasClose, goneAt, resp, nextHandle>>

\* Variant: the provider keeps one client for the application and hands it
\* to every request.
ConnectReturnsMut(r, o, c, hc) ==
    /\ pc[r] = "connecting"
    /\ thread[r] = "running"
    /\ thread' = [thread EXCEPT ![r] = "finished"]
    /\ IF o = "ok"
         THEN /\ handle' = [handle EXCEPT ![r] = 1]
              /\ hasClose' = [hasClose EXCEPT ![r] = hc]
              /\ nextHandle' = nextHandle
         ELSE /\ hc = FALSE
              /\ UNCHANGED <<handle, hasClose, nextHandle>>
    /\ IF ProviderYields(kind[r], o)
         THEN /\ pc' = [pc EXCEPT ![r] = "validate"]
              /\ log' = [log EXCEPT ![r] = Append(@, Ev("conn_" \o o, IF o = "ok" THEN 1 ELSE 0))]
              /\ UNCHANGED resp
         ELSE Finish(r, <<EvC("conn_" \o o, IF o = "raise" THEN c ELSE "")>>,
                     ErrorResponse(ConnectError(kind[r], o, c)))
    /\ (o # "raise") => c = "errA"
    /\ UNCHANGED <<active, kind, body, client, goneAt>>

\* The connection call returns (a handle, or None) or raises.
ConnectReturns(r, o, c, hc) ==
    /\ pc[r] = "connecting"
    /\ thread[r] = "running"
    /\ thread' = [thread EXCEPT ![r] = "finished"]
    /\ IF o = "ok"
         THEN /\ handle' = [handle EXCEPT ![r] = nextHandle]
              /\ hasClose' = [hasClose EXCEPT ![r] = hc]
              /\ nextHandle' = nextHandle + 1
         ELSE /\ hc = FALSE
              /\ UNCHANGED <<handle, hasClose, nextHandle>>
    /\ IF ProviderYields(kind[r], o)
         THEN /\ pc' = [pc EXCEPT ![r] = "validate"]
              /\ log' = [log EXCEPT ![r] = Append(@, Ev("conn_" \o o, IF o = "ok" THEN nextHandle ELSE 0))]
              /\ UNCHANGED resp
         ELSE Finish(r, <<EvC("conn_" \o o, IF o = "raise" THEN c ELSE "")>>,
                     ErrorResponse(ConnectError(kind[r], o, c)))
    /\ (o # "raise") => c = "errA"
    /\ UNCHANGED <<active, kind, body, client, goneAt>>

\* asyncio.wait_for gives up on the motor connection call after 10 seconds:
\* the request goes on with the timeout error.  A call that a worker thread
\* has started runs on; one still waiting for a thread is cancelled.
ConnectTimeout(r) ==
    /\ pc[r] = "connecting"
    /\ thread[r] \in {"running", "queued"}
    /\ ~IsCamera(kind[r])
    /\ thread' = [thread EXCEPT ![r] = IF thread[r] = "running" THEN "abandoned" ELSE "cancelled"]
    /\ Finish(r, <<Ev("conn_timeout", 0)>>, ErrorResponse(ConnectError(kind[r], "timeout", "")))
    /\ UNCHANGED <<active, kind, body, handle, hasClose, client, goneAt, nextHandle>>

\* The framework validates the endpoint's own parameters, after the
\* dependency was solved.  On a validation error the endpoint is not called:
\* the dependency is closed normally and the 422 goes out.
Validate(r) ==
    /\ pc[r] = "validate"
    /\ IF BodyValid(kind[r], body[r])
         THEN /\ pc' = [pc EXCEPT ![r] = "body"]
              /\ log' = [log EXCEPT ![r] = Append(@, Ev("body_enter", handle[r]))]
              /\ UNCHANGED resp
         ELSE Finish(r, Cleanup(kind[r], handle[r], hasClose[r]), ValidationError)
    /\ UNCHANGED <<active, kind, body, handle, hasClose, thread, client, goneAt, nextHandle>>

(***************************************************************************)
(* Command handlers: get_single_frame, set_exposure, set_gain, move_motor, *)
(* get_motor_position, set_motor_speed.                                    *)
(***************************************************************************)
OpArg(k, b) == IF k = "frame" THEN 1 ELSE IF k = "position" THEN 0 ELSE b.val

\* The handler takes the bound method from the handle and dispatches the
\* call to a worker thread.  None has no such method: the AttributeError is
\* caught by the handler's own except clause.
CallOp(r) ==
    /\ pc[r] = "body"
    /\ kind[r] # "stream"
    /\ IF handle[r] = 0
         THEN /\ HandlerRaises(r, <<>>, HandlerFailure(kind[r], PlainException("AttributeError")))
              /\ UNCHANGED thread
         ELSE /\ log' = [log EXCEPT ![r] = Append(@, Ev(OpName(kind[r]), OpArg(kind[r], body[r])))]
              /\ thread' = [thread EXCEPT ![r] = Dispatch(r)]
              /\ pc' = [pc EXCEPT ![r] = "calling"]
              /\ UNCHANGED resp
    /\ UNCHANGED <<active, kind, body, handle, hasClose, client, goneAt, nextHandle>>

OpOutcomes(k) ==
    IF k = "frame" THEN {"ok", "noframe", "encfail", "raise", "encraise"} ELSE {"ok", "raise"}

\* Variant: the handler's error message leaves the cause out.
HandlerErrorMut(k, o, c) == HTTPException(StatusModule.HTTP_500_INTERNAL_SERVER_ERROR, <<HandlerPrefix(k)>>)

\* The exception a handler raises for outcome o of its instrument call.
\* get_single_frame raises its own HTTPExceptions inside its try block, so
\* they pass through its "except Exception" clause as well.
HandlerError(k, o, c) ==
    CASE o = "noframe" -> HandlerFailure(k, HTTPException(StatusModule.HTTP_500_INTERNAL_SERVER_ERROR, <<"No frames received from camera">>))
      [] o = "encfail" -> HandlerFailure(k, HTTPException(StatusModule.HTTP_500_INTERNAL_SERVER_ERROR, <<"Could not encode frame to JPEG">>))
      [] OTHER -> HandlerFailure(k, PlainException(c))

\* The instrument call returns v or raises c.
OpReturns(r, o, v, c) ==
    /\ pc[r] = "calling"
    /\ thread[r] = "running"
    /\ o \in OpOutcomes(kind[r])
    /\ (kind[r] \in {"position", "frame"} /\ o = "ok") \/ v = OpArg(kind[r], body[r])
    /\ (o \in {"raise", "encraise"}) \/ c = "errA"
    /\ thread' = [thread EXCEPT ![r] = "finished"]
    /\ IF o = "ok"
         THEN HandlerReturns(r, <<Ev("op_ok", v)>>, SuccessResponse(kind[r], v))
         ELSE HandlerRaises(r, <<EvC("op_" \o o, IF o \in {"raise", "encraise"} THEN c ELSE "")>>,
                            HandlerError(kind[r], o, c))
    /\ UNCHANGED <<active, kind, body, handle, hasClose, client, goneAt, nextHandle>>

(***************************************************************************)
(* The streaming handler: websocket_camera_stream.                         *)
(***************************************************************************)
\* await websocket.accept(), the first statement of the handler body.
Accept(r) ==
    /\ pc[r] = "body"
    /\ kind[r] = "stream"
    /\ log' = [log EXCEPT ![r] = Append(@, Ev("accept", 0))]
    /\ pc' = [pc EXCEPT ![r] = "loop"]
    /\ UNCHANGED <<active, kind, body, handle, hasClose, thread, client, goneAt, resp, nextHandle>>

\* Variant: the loop logs the exception and tries the next iteration.
StreamErrorMut(r, events, c) ==
    /\ log' = [log EXCEPT ![r] = @ \o events]
    /\ pc' = [pc EXCEPT ![r] = "loop"]
    /\ UNCHANGED resp

\* The "except Exception as e" clause of the loop: the close code is read
\* from the status module, then the close frame is sent and the loop left.
\* When the status module has no such name the AttributeError leaves the
\* except clause and the handler; when the channel is gone the close raises.
StreamError(r, events, c) ==
    IF HasStatus(StreamCloseCodeName) /\ client[r] = "open"
    THEN HandlerReturns(r, events \o <<EvC("close_frame", c)>>, NoResp)
    ELSE HandlerRaises(r, events,
                       PlainException(IF HasStatus(StreamCloseCodeName) THEN "RuntimeError" ELSE "AttributeError"))

\* Variant: every iteration connects to the camera again.
AcquireMut(r) ==
    /\ pc[r] = "loop"
    /\ Count(log[r], "getFutureFrames") < MaxIter
    /\ IF handle[r] = 0
         THEN /\ StreamError(r, <<>>, "AttributeError")
              /\ UNCHANGED thread
         ELSE /\ log' = [log EXCEPT ![r] = @ \o <<Ev("connect", 0), Ev("getFutureFrames", 1)>>]
              /\ thread' = [thread EXCEPT ![r] = Dispatch(r)]
              /\ pc' = [pc EXCEPT ![r] = "acquiring"]
              /\ UNCHANGED resp
    /\ UNCHANGED <<active, kind, body, handle, hasClose, client, goneAt, nextHandle>>

\* The top of an iteration: the frame acquisition is dispatched to a worker.
Acquire(r) ==
    /\ pc[r] = "loop"
    /\ Count(log[r], "getFutureFrames") < MaxIter
    /\ IF handle[r] = 0
         THEN /\ StreamError(r, <<>>, "AttributeError")
              /\ UNCHANGED thread
         ELSE /\ log' = [log EXCEPT ![r] = Append(@, Ev("getFutureFrames", 1))]
              /\ thread' = [thread EXCEPT ![r] = Dispatch(r)]
              /\ pc' = [pc EXCEPT ![r] = "acquiring"]
              /\ UNCHANGED resp
    /\ UNCHANGED <<active, kind, body, handle, hasClose, client, goneAt, nextHandle>>

StreamOutcomes == {"ok", "noframe", "encfail", "raise", "encraise"}

\* Variant: an iteration without a frame leaves the loop.
AfterSkipMut(o) == IF o = "noframe" THEN "done" ELSE "loop"

\* Variant: a failed encoding leaves the loop.
AfterSkipEncMut(o) == IF o = "encfail" THEN "done" ELSE "loop"

\* Variant: an iteration that sent nothing goes on without dispatching the
\* next acquisition.
AfterSkipSpinMut(o) == "acquiring"

\* Where the loop goes after an iteration that sent nothing.
AfterSkip(o) == "loop"

\* The rest of the iteration, once the acquisition returned: no frame and a
\* failed encoding continue the loop; an encoded frame is sent, and a send
\* to a peer that is gone raises WebSocketDisconnect, which leaves the loop.
AcquireReturns(r, o, c) ==
    /\ pc[r] = "acquiring"
    /\ thread[r] = "running"
    /\ o \in StreamOutcomes
    /\ (o \in {"raise", "encraise"}) \/ c = "errA"
    /\ thread' = [thread EXCEPT ![r] = "finished"]
    /\ CASE o \in {"noframe", "encfail"} ->
              /\ log' = [log EXCEPT ![r] = Append(@, Ev(o, 0))]
              /\ pc' = [pc EXCEPT ![r] = AfterSkip(o)]
              /\ UNCHANGED resp
         [] o = "ok" /\ client[r] = "open" ->
              /\ log' = [log EXCEPT ![r] = @ \o <<Ev("encoded", 0), Ev("send", 0)>>]
              /\ pc' = [pc EXCEPT ![r] = "loop"]
              /\ UNCHANGED resp
         [] o = "ok" /\ client[r] # "open" ->
              HandlerReturns(r, <<Ev("encoded", 0), Ev("disconnect", 0)>>, NoResp)
         [] OTHER ->
              StreamError(r, <<EvC("iter_" \o o, c)>>, c)
    /\ UNCHANGED <<active, kind, body, handle, hasClose, client, goneAt, nextHandle>>

\* The peer closes an accepted channel.
ClientDisconnect(r) ==
    /\ kind[r] = "stream"
    /\ pc[r] \in {"loop", "acquiring"}
    /\ client[r] = "open"
    /\ client' = [client EXCEPT ![r] = "closed"]
    /\ goneAt' = [goneAt EXCEPT ![r] = Count(log[r], "getFutureFrames")]
    /\ UNCHANGED <<active, pc, kind, body, handle, hasClose, thread, log, resp, nextHandle>>

\* A thread of the executor is free: it takes a waiting call.
Start(r) ==
    /\ thread[r] = "queued"
    /\ Cardinality(Busy) < Workers
    /\ thread' = [thread EXCEPT ![r] = "running"]
    /\ UNCHANGED <<active, pc, kind, body, handle, hasClose, client, goneAt, log, resp, nextHandle>>

\* A connection call that wait_for gave up on comes back in its worker
\* thread; nobody awaits it.  When it returns a handle, that handle was never
\* given to the provider: no try/finally of any request covers it.
AbandonedReturns(r, o) ==
    /\ thread[r] = "abandoned"
    /\ o \in ConnOutcomes
    /\ thread' = [thread EXCEPT ![r] = "finished"]
    /\ IF o = "ok"
         THEN /\ log' = [log EXCEPT ![r] = Append(@, Ev("orphan", nextHandle))]
              /\ nextHandle' = nextHandle + 1
         ELSE UNCHANGED <<log, nextHandle>>
    /\ UNCHANGED <<active, pc, kind, body, handle, hasClose, client, goneAt, resp>>

Next ==
    \/ \E r \in Req, k \in Kinds, b \in Bodies : Request(r, k, b)
    \/ \E r \in Req, o \in ConnOutcomes, c \in Causes, hc \in BOOLEAN : ConnectReturns(r, o, c, hc)
    \/ \E r \in Req : ConnectTimeout(r)
    \/ \E r \in Req : Validate(r)
    \/ \E r \in Req : CallOp(r)
    \/ \E r \in Req, o \in StreamOutcomes, v \in Values \cup {1}, c \in Causes : OpReturns(r, o, v, c)
    \/ \E r \in Req : Accept(r)
    \/ \E r \in Req : Acquire(r)
    \/ \E r \in Req, o \in StreamOutcomes, c \in Causes : AcquireReturns(r, o, c)
    \/ \E r \in Req : ClientDisconnect(r)

Spec == Init /\ [][Next]_vars

(***************************************************************************)
(* Concurrent requests: the application serves every request slot at once  *)
(* on one event loop.  The endpoints taken are one of each router that     *)
(* has no body, GET /frame and GET /position.                              *)
(***************************************************************************)
ConcKinds == {"frame", "position"}

\* The slots on which a streaming client connects to /ws/stream.
StreamSlots == {1}

InitConc ==
    /\ active = Req
    /\ pc = [r \in Req |-> "idle"]
    /\ kind = [r \in Req |-> "none"]
    /\ body = [r \in Req |-> NoBody]
    /\ handle = [r \in Req |-> 0]
    /\ hasClose = [r \in Req |-> FALSE]
    /\ thread = [r \in Req |-> "none"]
    /\ client = [r \in Req |-> "na"]
    /\ goneAt = [r \in Req |-> -1]
    /\ log = [r \in Req |-> <<>>]
    /\ resp = [r \in Req |-> NoResp]
    /\ nextHandle = 1

\* The steps request r takes on the event loop, between two awaits.
LoopStepOf(r) ==
    \/ \E k \in ConcKinds : Request(r, k, NoBody)
    \/ r \in StreamSlots /\ Request(r, "stream", NoBody)
    \/ Validate(r)
    \/ CallOp(r)
    \/ Accept(r)
    \/ Acquire(r)

\* The steps of request r: those of its coroutine and of its worker thread.
StepOf(r) ==
    \/ LoopStepOf(r)
    \/ Start(r)
    \/ \E o \in ConnOutcomes : ConnectReturns(r, o, "errA", FALSE)
    \/ ConnectTimeout(r)
    \/ \E o \in {"ok", "raise"}, v \in {0, 1} : OpReturns(r, o, v, "errA")
    \/ \E o \in {"ok", "noframe", "encfail", "raise"} : AcquireReturns(r, o, "errA")

NextConc ==
    \/ \E r \in Req, k \in ConcKinds : Request(r, k, NoBody)
    \/ \E r \in StreamSlots : Request(r, "stream", NoBody)
    \/ \E r \in Req : Start(r)
    \/ \E r \in Req, o \in ConnOutcomes : ConnectReturns(r, o, "errA", FALSE)
    \/ \E r \in Req : ConnectTimeout(r)
    \/ \E r \in Req, o \in ConnOutcomes : AbandonedReturns(r, o)
    \/ \E r \in Req : Validate(r)
    \/ \E r \in Req : CallOp(r)
    \/ \E r \in Req, o \in {"ok", "raise"}, v \in {0, 1} : OpReturns(r, o, v, "errA")
    \/ \E r \in Req : Accept(r)
    \/ \E r \in Req : Acquire(r)
    \/ \E r \in Req, o \in {"ok", "noframe", "encfail", "raise"} : AcquireReturns(r, o, "errA")

SpecConc == InitConc /\ [][NextConc]_vars

(***************************************************************************)
(* Properties.                                                             *)
(***************************************************************************)
Done(r) == pc[r] = "done"
IsStream(r) == kind[r] = "stream"
\* The calls of the handle's close method the request made.
Released(r) == Count(log[r], "close")
\* The text c occurs in the response's message.
Carries(response, c) == \E i \in DOMAIN response.detail : response.detail[i] = c
CauseOf(l, name) == l[First(l, name)].c

\* C1: every request that acquired an instrument handle (here: one that
\* exposes a close method) has released it exactly once when it ends, on
\* every exit path.
C1_ReleasedExactlyOnce ==
    \A r \in Req : (Done(r) /\ handle[r] # 0 /\ hasClose[r]) => Released(r) = 1

\* C2: a PUT /exposure request with exposure_time_us <= 0 ends with 422 and
\* neither the connection call nor setExposureTime was invoked.
C2_InvalidExposureNeverTouchesCamera ==
    \A r \in Req :
        (Done(r) /\ kind[r] = "exposure" /\ body[r].num /\ body[r].val <= 0)
            => /\ resp[r].status = 422
               /\ ~Has(log[r], "connect")
               /\ ~Has(log[r], "setExposureTime")

\* C3: a PUT /gain with gain < 0 or a PUT /speed with speed < 0 ends with 422
\* and neither the connection call nor set_gain / set_speed was invoked.
C3_NegativeGainSpeedNeverTouchesInstrument ==
    \A r \in Req :
        (Done(r) /\ kind[r] \in {"gain", "speed"} /\ body[r].num /\ body[r].val < 0)
            => /\ resp[r].status = 422
               /\ ~Has(log[r], "connect")
               /\ ~Has(log[r], "set_gain")
               /\ ~Has(log[r], "set_speed")

\* C4: a request whose body violates a declared constraint always ends with
\* the validation error 422, never with 500, whatever the instrument server
\* does (connects, raises, returns no handle, times out).
C4_ConstraintViolationIs422 ==
    \A r \in Req :
        (Done(r) /\ HasBody(kind[r]) /\ ~BodyValid(kind[r], body[r]))
            => resp[r].status = 422

\* C5: when the connection call raised or returned None, for the camera and
\* for the motor, the request ends with an error response carrying the
\* cause and no handler body was entered.
C5_ConnectionFailureAborts ==
    \A r \in Req :
        /\ Has(log[r], "conn_raise") =>
              /\ ~Has(log[r], "body_enter")
              /\ Done(r) => /\ resp[r].status = 500
                            /\ Carries(resp[r], CauseOf(log[r], "conn_raise"))
        /\ Has(log[r], "conn_none") =>
              /\ ~Has(log[r], "body_enter")
              /\ Done(r) => resp[r].status = 500

\* C6: a motor request whose connection call is still running can always
\* be ended by the timeout; once timed out the request is done with an
\* error response while the connection call is still running, and that
\* response differs from every response of a connection call that raised or
\* returned no handle.
C6_TimeoutIsDistinctError ==
    \A r \in Req :
        /\ (pc[r] = "connecting" /\ kind[r] \in MotorKinds) => ENABLED ConnectTimeout(r)
        /\ Has(log[r], "conn_timeout") =>
              /\ Done(r)
              /\ resp[r].status = 500
              /\ resp[r] # ErrorResponse(ConnectError(kind[r], "none", ""))
              /\ \A c \in Causes : resp[r] # ErrorResponse(ConnectError(kind[r], "raise", c))

C6_Witness ==
    \E r \in Req : Has(log[r], "conn_timeout") /\ Done(r) /\ thread[r] = "abandoned"

\* C7: a stream that saw its client disconnect ended without an exception
\* leaving the handler, and released its handle exactly once, before the
\* handler returned.
C7_DisconnectReleasesBeforeReturn ==
    \A r \in Req :
        (IsStream(r) /\ Done(r) /\ Has(log[r], "disconnect") /\ hasClose[r])
            => /\ ~Has(log[r], "body_raise")
               /\ Released(r) = 1
               /\ First(log[r], "close") < First(log[r], "body_return")

\* C8: an iteration that got no frame sends nothing, sends no close frame
\* and leaves the stream in its loop (the next thing the stream does is the
\* next acquisition); and every frame that was returned and encoded, after
\* any number of such iterations, is sent as a binary message while the
\* client is connected.
C8_NoFrameKeepsStreaming ==
    \A r \in Req : IsStream(r) =>
        \A i \in DOMAIN log[r] :
            /\ log[r][i].e = "noframe" =>
                  IF i = Len(log[r])
                  THEN pc[r] = "loop" /\ resp[r] = NoResp
                  ELSE log[r][i + 1].e = "getFutureFrames"
            /\ log[r][i].e = "encoded" =>
                  /\ i < Len(log[r])
                  /\ \/ log[r][i + 1].e = "send"
                     \/ log[r][i + 1].e = "disconnect" /\ client[r] = "closed"

C8_Witness ==
    \E r \in Req : \E i, j, k \in DOMAIN log[r] :
        /\ i < j /\ j < k
        /\ log[r][i].e = "noframe"
        /\ log[r][j].e = "noframe"
        /\ log[r][k].e = "send"

\* C9: a stream with a handle whose loop ended did so either on the peer's disconnect with
\* no close frame, or on another exception with exactly one close frame
\* carrying the exception text; nothing is acquired or sent afterwards.
C9_ErrorExitSendsOneCloseFrame ==
    \A r \in Req :
        (IsStream(r) /\ Done(r) /\ Has(log[r], "accept") /\ handle[r] # 0)
            => \/ Has(log[r], "disconnect") /\ Count(log[r], "close_frame") = 0
               \/ /\ ~Has(log[r], "disconnect")
                  /\ Count(log[r], "close_frame") = 1
                  /\ \A i \in DOMAIN log[r] :
                        log[r][i].e = "close_frame" =>
                            /\ log[r][i].c \in Causes
                            /\ \A j \in (i + 1)..Len(log[r]) :
                                    log[r][j].e \notin {"getFutureFrames", "send"}

\* C10 as stated: the channel is accepted first and only then is the
\* connection call made.
C10_AcceptBeforeAcquire ==
    \A r \in Req :
        (IsStream(r) /\ Has(log[r], "connect"))
            => Has(log[r], "accept") /\ First(log[r], "accept") < First(log[r], "connect")

\* C10 amended: the connection call is made and has returned before the
\* channel is accepted; when it raised the handler body is never entered
\* and the channel never accepted; when it raised or returned no handle no
\* frame is acquired and none is sent.
C10_AcquireBeforeAccept ==
    \A r \in Req : IsStream(r) =>
        /\ Has(log[r], "accept") =>
              /\ Has(log[r], "conn_ok") \/ Has(log[r], "conn_none")
              /\ First(log[r], "connect") < First(log[r], "accept")
              /\ \A i \in DOMAIN log[r] :
                    log[r][i].e \in {"conn_ok", "conn_none"} => i < First(log[r], "accept")
        /\ Has(log[r], "conn_raise") =>
              /\ ~Has(log[r], "body_enter")
              /\ ~Has(log[r], "accept")
        /\ (Has(log[r], "conn_raise") \/ Has(log[r], "conn_none")) =>
              /\ ~Has(log[r], "getFutureFrames")
              /\ ~Has(log[r], "send")

C10_Witness ==
    \E r \in Req : IsStream(r) /\ Done(r) /\ Has(log[r], "conn_raise") /\ ~Has(log[r], "accept")


\* The cause of a failed frame request: the text the instrument raised, or
\* the handler's own text for "no frame" and "encoding failed".
FrameCause(l) ==
    CASE Has(l, "op_raise") -> CauseOf(l, "op_raise")
      [] Has(l, "op_encraise") -> CauseOf(l, "op_encraise")
      [] Has(l, "op_noframe") -> "No frames received from camera"
      [] OTHER -> "Could not encode frame to JPEG"

FrameFailed(l) ==
    Has(l, "op_raise") \/ Has(l, "op_noframe") \/ Has(l, "op_encfail") \/ Has(l, "op_encraise")

\* C11: a GET /frame whose frame read raised, returned no frame, or whose
\* JPEG encoding failed is answered at once with a 500 whose message
\* contains the cause; never with a 200 or an empty message.
C11_FrameFailureIs500WithCause ==
    \A r \in Req :
        (kind[r] = "frame" /\ FrameFailed(log[r]))
            => /\ Done(r)
               /\ resp[r].status = 500
               /\ Carries(resp[r], FrameCause(log[r]))
               /\ Count(log[r], "getFrameForDisplay") = 1

C11_Witness ==
    \E r \in Req : kind[r] = "frame" /\ Done(r) /\ Has(log[r], "op_encfail") /\ resp[r].status = 500

\* C12: GET /frame answers 200 exactly when the connection gave a handle,
\* the single frame read returned a frame and the encoding succeeded; the
\* answer then is image/jpeg with the encoding of that frame, not empty.
C12_FrameSuccessIsJpeg ==
    \A r \in Req :
        (kind[r] = "frame" /\ Done(r))
            => /\ resp[r].status = 200 <=> (Has(log[r], "conn_ok") /\ Has(log[r], "op_ok"))
               /\ Has(log[r], "op_ok") =>
                     /\ Count(log[r], "getFrameForDisplay") = 1
                     /\ resp[r].detail = <<"image/jpeg">> \o Encode(log[r][First(log[r], "op_ok")].a)
                     /\ Len(resp[r].detail) > 1

C12_Witness ==
    \E r \in Req : kind[r] = "frame" /\ Done(r) /\ resp[r].status = 200 /\ Has(log[r], "op_ok")


\* C13: PUT /move with any numeric position p, a motor that connected and a
\* move that did not raise: 200 "Motor moving to position: <p>", and move
\* was invoked exactly once, with p, and nothing else was.
C13_MoveAnyPosition ==
    \A r \in Req :
        (kind[r] = "move" /\ Done(r) /\ body[r].num /\ Has(log[r], "conn_ok") /\ ~Has(log[r], "op_raise"))
            => /\ resp[r] = Response(200, <<"Motor moving to position: ", ToString(body[r].val)>>)
               /\ Count(log[r], "move") = 1
               /\ log[r][First(log[r], "move")].a = body[r].val
               /\ Ops(log[r]) = 1

C13_Witness ==
    \E r \in Req : kind[r] = "move" /\ Done(r) /\ body[r].val < 0 /\ resp[r].status = 200

\* C14: GET /position whose position read returned v: 200 with position v;
\* the read was invoked exactly once and no other instrument operation was.
C14_PositionReadOnce ==
    \A r \in Req :
        (kind[r] = "position" /\ Has(log[r], "op_ok"))
            => /\ Done(r)
               /\ resp[r] = Response(200, <<"position", ToString(log[r][First(log[r], "op_ok")].a)>>)
               /\ Count(log[r], "get_position") = 1
               /\ Ops(log[r]) = 1

C14_Witness ==
    \E r \in Req : kind[r] = "position" /\ Done(r) /\ resp[r] = Response(200, <<"position", ToString(-1)>>)

\* C15: a valid setting (exposure > 0, gain >= 0, speed >= 0) sent to an
\* instrument that gave a handle: the setter is invoked exactly once, with
\* that value; the answer is the 200 echoing the value exactly when the call
\* returned, and a 500 carrying the cause when it raised.
C15_ValidSettingSetOnce ==
    \A r \in Req :
        (kind[r] \in {"exposure", "gain", "speed"} /\ Done(r) /\ Has(log[r], "conn_ok")
            /\ body[r].num /\ body[r].val >= (IF kind[r] = "exposure" THEN 1 ELSE 0))
            => /\ Count(log[r], OpName(kind[r])) = 1
               /\ log[r][First(log[r], OpName(kind[r]))].a = body[r].val
               /\ Ops(log[r]) = 1
               /\ resp[r].status = 200 <=> Has(log[r], "op_ok")
               /\ Has(log[r], "op_ok") => Carries(resp[r], ToString(body[r].val))
               /\ Has(log[r], "op_raise") =>
                     /\ resp[r].status = 500
                     /\ Carries(resp[r], CauseOf(log[r], "op_raise"))

C15_Witness ==
    \E r \in Req : kind[r] = "gain" /\ Done(r) /\ body[r].val = 0 /\ resp[r].status = 200


\* C16: once the client of a stream has disconnected, the loop notices it in
\* the next iteration it begins: at most one frame acquisition starts after
\* the disconnect, whatever the camera returns.
C16_DisconnectSeenNextIteration ==
    \A r \in Req :
        (IsStream(r) /\ goneAt[r] >= 0)
            => Count(log[r], "getFutureFrames") <= goneAt[r] + 1


\* C17: in a stream a message is sent only for a frame that was returned and
\* encoded in that same iteration, one message per such frame (the send
\* attempted at a peer that is gone is the disconnect exit); a failed
\* encoding sends nothing and leaves the handler streaming; so the messages
\* sent never outnumber the acquisitions performed.
C17_SendIffEncoded ==
    \A r \in Req : IsStream(r) =>
        /\ \A i \in DOMAIN log[r] :
              /\ log[r][i].e = "send" =>
                    i > 2 /\ log[r][i - 1].e = "encoded" /\ log[r][i - 2].e = "getFutureFrames"
              /\ log[r][i].e = "encoded" =>
                    /\ i > 1 /\ log[r][i - 1].e = "getFutureFrames"
                    /\ i < Len(log[r])
                    /\ log[r][i + 1].e \in {"send", "disconnect"}
                    /\ log[r][i + 1].e = "send" => (goneAt[r] = -1 \/ goneAt[r] >= Count(SubSeq(log[r], 1, i), "getFutureFrames"))
              /\ log[r][i].e = "encfail" =>
                    /\ i > 1 /\ log[r][i - 1].e = "getFutureFrames"
                    /\ IF i = Len(log[r])
                       THEN pc[r] = "loop" /\ resp[r] = NoResp
                       ELSE log[r][i + 1].e = "getFutureFrames"
              /\ log[r][i].e = "getFutureFrames" /\ i < Len(log[r]) =>
                    log[r][i + 1].e \in {"noframe", "encfail", "encoded", "iter_raise", "iter_encraise"}
        /\ Count(log[r], "send") = Count(log[r], "encoded") - Count(log[r], "disconnect")
        /\ Count(log[r], "send") <= Count(log[r], "getFutureFrames")

C17_Witness ==
    \E r \in Req : \E i, j \in DOMAIN log[r] :
        /\ i < j
        /\ log[r][i].e = "encfail"
        /\ log[r][j].e = "send"
        /\ Count(log[r], "send") < Count(log[r], "getFutureFrames")


\* C18: a stream that has acquired at least once made exactly one connection
\* attempt, before its first acquisition, and the handle it holds at every
\* later point is the one that attempt returned.
C18_OneConnectionPerStream ==
    \A r \in Req :
        (IsStream(r) /\ Has(log[r], "getFutureFrames"))
            => /\ Count(log[r], "connect") = 1
               /\ Count(log[r], "conn_ok") = 1
               /\ Count(log[r], "body_enter") = 1
               /\ First(log[r], "connect") < First(log[r], "conn_ok")
               /\ First(log[r], "conn_ok") < First(log[r], "getFutureFrames")
               /\ handle[r] # 0
               /\ handle[r] = log[r][First(log[r], "conn_ok")].a
               /\ handle[r] = log[r][First(log[r], "body_enter")].a

C18_Witness ==
    \E r \in Req : IsStream(r) /\ Count(log[r], "getFutureFrames") = MaxIter /\ Count(log[r], "send") >= 2


FailureEvents == {"conn_raise", "conn_none", "conn_timeout", "op_raise", "op_encraise",
                  "op_noframe", "op_encfail", "iter_raise", "iter_encraise"}

\* C19: no retry: nothing is attempted after a failure.  In the history of a
\* request no connection attempt and no instrument operation follows a failed
\* connection attempt or a failed operation; a request makes at most one
\* connection attempt, and a request other than a stream at most one
\* instrument operation.
C19_NoRetry ==
    \A r \in Req :
        /\ \A i, j \in DOMAIN log[r] :
              (i < j /\ log[r][i].e \in FailureEvents)
                  => log[r][j].e \notin (OpEvents \cup {"connect"})
        /\ Count(log[r], "connect") <= 1
        /\ ~IsStream(r) => Ops(log[r]) <= 1

C19_Witness ==
    \E r \in Req :
        IsStream(r) /\ Done(r) /\ Has(log[r], "iter_raise") /\ Count(log[r], "getFutureFrames") = 2


\* C20: a request that has started is never stalled by the instrument calls
\* other requests are blocked in: whatever the others do, it has a step of
\* its own to take towards its response.
C20_BlockedCallsDoNotStallOthers ==
    \A r \in Req :
        pc[r] \in {"connecting", "validate", "body", "calling"} => ENABLED StepOf(r)


\* C22: when the connection gave a handle and the handler then failed (the
\* instrument call raised, no frame came, the encoding failed), the error
\* sent to the client is the handler's own and does not carry the
\* provider's "Could not connect to ..." label.
C22_HandlerErrorNotRelabelled ==
    \A r \in Req :
        (Done(r) /\ ~IsStream(r) /\ Has(log[r], "conn_ok")
            /\ \E i \in DOMAIN log[r] : log[r][i].e \in {"op_raise", "op_encraise", "op_noframe", "op_encfail"})
            => /\ resp[r].status = 500
               /\ resp[r].detail[1] = HandlerPrefix(kind[r])
               /\ ~Carries(resp[r], ConnPrefix(kind[r]))

\* C24: the streaming handler of a connection that holds a handle returns
\* normally on every terminal path: no exception leaves the handler body.
C24_StreamHandlerAlwaysReturns ==
    \A r \in Req :
        (IsStream(r) /\ Done(r) /\ Has(log[r], "accept") /\ handle[r] # 0)
            => ~Has(log[r], "body_raise")


\* C23: once a motor connection attempt has timed out, no handle of that
\* attempt exists or comes into existence later.
C23_NoHandleAfterTimeout ==
    \A r \in Req :
        Has(log[r], "conn_timeout") => (handle[r] = 0 /\ ~Has(log[r], "orphan"))


\* The handles the connection attempts of a request created.
Created(l) == {l[i].a : i \in {j \in DOMAIN l : l[j].e \in {"conn_ok", "orphan"}}}

\* The handles a request used: entered its handler with, or cleaned up.
Used(l) == {l[i].a : i \in {j \in DOMAIN l : l[j].e \in {"body_enter", "cleanup"}}} \ {0}

\* C21: under any interleaving of concurrent requests and a stream, every
\* request makes one connection attempt of its own, the handle it holds and
\* uses is the one that attempt created, and no handle created for one
\* request is held or used by another.
C21_HandleExclusive ==
    \A r \in Req :
        /\ pc[r] # "idle" => Count(log[r], "connect") = 1
        /\ Cardinality(Created(log[r])) <= 1
        /\ Used(log[r]) \subseteq Created(log[r])
        /\ handle[r] # 0 => (Has(log[r], "conn_ok") /\ handle[r] = log[r][First(log[r], "conn_ok")].a)
        /\ \A q \in Req \ {r} :
              /\ Created(log[r]) \cap Created(log[q]) = {}
              /\ Used(log[r]) \cap Used(log[q]) = {}
              /\ handle[r] # 0 => handle[r] # handle[q]

C21_Witness ==
    \E r, q \in Req :
        /\ IsStream(r) /\ pc[r] = "acquiring" /\ Count(log[r], "getFutureFrames") = 2
        /\ kind[q] = "position" /\ pc[q] = "calling"
        /\ handle[r] # 0 /\ handle[q] # 0


Skips(l) == Count(l, "noframe") + Count(l, "encfail")

\* C25: every iteration of the streaming loop, the ones ending in a
\* "continue" included, awaits a dispatched frame acquisition: a skip is
\* always preceded by a dispatch, a looping stream is either suspended on
\* its dispatched call or about to dispatch the next one with its worker
\* given back, and meanwhile every other request has a step it can take
\* unless it waits for a worker that a running call holds.
C25_SkippingStreamYields ==
    \A r \in Req : IsStream(r) =>
        /\ \A i \in DOMAIN log[r] :
              log[r][i].e \in {"noframe", "encfail"} =>
                  i > 1 /\ log[r][i - 1].e = "getFutureFrames"
        /\ pc[r] = "acquiring" =>
              /\ thread[r] \in {"queued", "running"}
              /\ log[r][Len(log[r])].e = "getFutureFrames"
        /\ pc[r] = "loop" => r \notin Busy
        /\ pc[r] \in {"loop", "acquiring"} =>
              \A q \in Req \ {r} :
                  /\ pc[q] \in {"idle", "validate", "body"} => ENABLED LoopStepOf(q)
                  /\ (pc[q] # "done" /\ ~(thread[q] = "queued" /\ Cardinality(Busy) >= Workers))
                        => ENABLED StepOf(q)

C25_Witness ==
    \E r, q \in Req :
        /\ IsStream(r) /\ pc[r] = "loop" /\ Skips(log[r]) >= 2 /\ ~Has(log[r], "send")
        /\ pc[q] = "calling" /\ thread[q] = "running"

====
